---- MODULE Spec2Model ----
(***************************************************************************)
(* A model of ffmpeg-2pass-tools: the command line inspector               *)
(* (CommandProcessor), the two-pass pipeline (ffmpeg_2pass_and_exif with   *)
(* ExecCmd), the burst series segmentation (BurstSeries.find_all_series),  *)
(* the sequence number extraction (ImageFile.get_sequence_and_pattern)     *)
(* and the frame rate guess (guess_framerate).                             *)
(*                                                                         *)
(* Python strings are TLA+ strings (TLC evaluates Len, \o and SubSeq on    *)
(* them).  Python indices are kept 0-based: element i of a list l is       *)
(* l[i + 1].  An Optional value is a sequence of length at most one:       *)
(* None is << >> and a value v is << v >>.                                 *)
(***************************************************************************)
EXTENDS Integers, Sequences, FiniteSets, TLC

VARIABLES
  pc,              \* position of the running function
  args,            \* CommandProcessor.args
  fs,              \* the file system the call sees: [files, lists]
  call,            \* CommandProcessor method called last, with its parameters
  ret,             \* what that call returned
  dry_run,         \* ExecCmd.dry_run
  inspected,       \* locals of ffmpeg_2pass_and_exif after its inspection
  output_path,     \* local output_path of ffmpeg_2pass_and_exif
  printed,         \* commands ExecCmd.run has printed, in order
  results,         \* outcome of each command subprocess.run has started
  status,          \* how the call ended: exception or exit status
  images,          \* argument images of find_all_series
  min_num_images,  \* argument min_num_images of find_all_series
  all_series,      \* what find_all_series returned
  path,            \* argument path of get_sequence_and_pattern
  seq_pat,         \* what get_sequence_and_pattern returned
  files_in,        \* argument files of guess_framerate, with the times read
  framerate,       \* what guess_framerate returned
  self_images,     \* BurstSeries.images of make_video: paths and times
  input_flags,     \* local input_flags of make_video
  video            \* BurstSeries.video

vars == << pc, args, fs, call, ret, dry_run, inspected, output_path, printed,
           results, status, images, min_num_images, all_series, path,
           seq_pat, files_in, framerate,
                  self_images, input_flags, video >>

\* ------------------------------------------------------------------------
\* Python values

None == << >>

Some(v) == << v >>

\* s[i] of a Python string, 0-based
Chr(s, i) == SubSeq(s, i + 1, i + 1)

\* s[i:j] of a Python string, 0 <= i <= j <= len(s)
Slice(s, i, j) == SubSeq(s, i + 1, j)

\* l[i] of a non-empty Python list; a negative index counts from the end
At(l, i) == IF i < 0 THEN l[Len(l) + i + 1] ELSE l[i + 1]

\* range(n)
py_range(n) == [k \in 1..n |-> k - 1]

\* range(start, -1, -1)
py_range_down(start) == [k \in 1..(start + 1) |-> start - (k - 1)]

Digits == {"0", "1", "2", "3", "4", "5", "6", "7", "8", "9"}

DigitVal(c) ==
  CASE c = "0" -> 0 [] c = "1" -> 1 [] c = "2" -> 2 [] c = "3" -> 3
    [] c = "4" -> 4 [] c = "5" -> 5 [] c = "6" -> 6 [] c = "7" -> 7
    [] c = "8" -> 8 [] c = "9" -> 9

\* int(s) of a non-empty string of digits
RECURSIVE py_int(_)
py_int(s) ==
  IF Len(s) = 0 THEN 0
  ELSE 10 * py_int(Slice(s, 0, Len(s) - 1)) + DigitVal(Chr(s, Len(s) - 1))

\* c * n of a one-character string
RECURSIVE Repeat(_, _)
Repeat(c, n) == IF n <= 0 THEN "" ELSE c \o Repeat(c, n - 1)

\* sub in s
Contains(s, sub) ==
  \E i \in 0..(Len(s) - Len(sub)) : Slice(s, i, i + Len(sub)) = sub

\* str.lower() on the letters the program's case-insensitive regexes name
LowerChr(c) ==
  CASE c = "M" -> "m" [] c = "O" -> "o" [] c = "V" -> "v" [] c = "P" -> "p"
    [] OTHER -> c

RECURSIVE Lower(_)
Lower(s) ==
  IF Len(s) = 0 THEN "" ELSE LowerChr(Chr(s, 0)) \o Lower(Slice(s, 1, Len(s)))

\* ------------------------------------------------------------------------
\* CommandProcessor

\* re.fullmatch of a pattern without metacharacters, which is what every
\* caller passes ('-i', '-f', '-b:v', '-c:v', '-tag:v'): the whole element
\* is the pattern.
fullmatch(regex, s) == s = regex

\* the loop of find_arg_position over rang, from its k-th index on
RECURSIVE ScanArgs(_, _, _, _)
ScanArgs(a, regex, rang, k) ==
  IF k > Len(rang) THEN None
  ELSE IF fullmatch(regex, At(a, rang[k])) THEN Some(rang[k])
  ELSE ScanArgs(a, regex, rang, k + 1)

find_arg_position_fwd_only(a, regex, backwards) ==
  ScanArgs(a, regex, py_range(Len(a) - 1), 1)

find_arg_position(a, regex, backwards) ==
  LET rang == IF backwards THEN py_range_down(Len(a) - 2)
              ELSE py_range(Len(a) - 1)
  IN  ScanArgs(a, regex, rang, 1)

find_arg_after(a, regex, backwards) ==
  LET pos == find_arg_position(a, regex, backwards)
  IN  IF pos = None THEN None
      ELSE Some([val |-> At(a, pos[1] + 1), pos |-> pos[1] + 1])

find_bitrate(a) ==
  LET bv_arg == find_arg_after(a, "-b:v", FALSE)
  IN  IF bv_arg # None THEN Some(bv_arg[1].val) ELSE None

find_encoder(a) ==
  LET cv_arg == find_arg_after(a, "-c:v", FALSE)
  IN  IF cv_arg # None THEN Some(cv_arg[1].val) ELSE None

find_output_format_no_pos(a) ==
  LET f_arg == find_arg_after(a, "-f", TRUE)
      i_arg == find_arg_after(a, "-i", FALSE)
  IN  IF f_arg # None /\ i_arg # None THEN Some(f_arg[1].val) ELSE None

find_output_format(a) ==
  LET f_arg == find_arg_after(a, "-f", TRUE)
      i_arg == find_arg_after(a, "-i", FALSE)
  IN  IF f_arg # None /\ i_arg # None /\ f_arg[1].pos > i_arg[1].pos
      THEN Some(f_arg[1].val)
      ELSE None

\* re.compile(r'\.(mov|mp4)$', re.IGNORECASE).findall(s) is not empty; $
\* matches at the end and before a newline that ends the string
IsMovMp4(s) ==
  LET t == IF Len(s) > 0 /\ Chr(s, Len(s) - 1) = "\n"
           THEN Slice(s, 0, Len(s) - 1) ELSE s
      EndsIn(u) == Len(u) >= 4 /\ Lower(Slice(u, Len(u) - 4, Len(u)))
                                    \in {".mov", ".mp4"}
  IN  EndsIn(s) \/ EndsIn(t)

RECURSIVE ScanOutput(_, _)
ScanOutput(a, i) ==
  IF i < 0 THEN None
  ELSE IF IsMovMp4(At(a, i))
       THEN (IF At(a, i - 1) # "-i" THEN Some(At(a, i)) ELSE None)
       ELSE ScanOutput(a, i - 1)

find_output(a) == ScanOutput(a, Len(a) - 1)

\* the characters of the modelled strings in ASCII order, for list.sort()
Ascii == "%'*-./0123456789:?ACDGIMSV_abcdefghijlmnoprstuvx"

Ord(c) == CHOOSE k \in 1..Len(Ascii) : Chr(Ascii, k - 1) = c

\* a < b of two Python strings
RECURSIVE StrLess(_, _)
StrLess(a, b) ==
  IF Len(b) = 0 THEN FALSE
  ELSE IF Len(a) = 0 THEN TRUE
  ELSE IF Chr(a, 0) = Chr(b, 0)
       THEN StrLess(Slice(a, 1, Len(a)), Slice(b, 1, Len(b)))
  ELSE Ord(Chr(a, 0)) < Ord(Chr(b, 0))

\* the number of digits of s from index i on
RECURSIVE DigitRun(_, _)
DigitRun(s, i) ==
  IF i < Len(s) /\ Chr(s, i) \in Digits THEN 1 + DigitRun(s, i + 1) ELSE 0

\* re.sub(r'%(\d+)d', replace_match, s) from index i on
RECURSIVE printf_to_glob(_, _)
printf_to_glob(s, i) ==
  IF i >= Len(s) THEN ""
  ELSE LET n == DigitRun(s, i + 1)
       IN  IF Chr(s, i) = "%" /\ n >= 1 /\ i + 1 + n < Len(s)
              /\ Chr(s, i + 1 + n) = "d"
           THEN Repeat("?", py_int(Slice(s, i + 1, i + 1 + n)))
                  \o printf_to_glob(s, i + n + 2)
           ELSE Chr(s, i) \o printf_to_glob(s, i + 1)

\* fnmatch of a file name of the current directory against a pattern whose
\* only magic character is ?; a leading dot is matched only by a dot
GlobMatch(pat, name) ==
  /\ Len(pat) = Len(name)
  /\ \A k \in 0..(Len(pat) - 1) :
        \/ Chr(pat, k) = Chr(name, k)
        \/ Chr(pat, k) = "?" /\ ~(k = 0 /\ Chr(name, 0) = ".")

\* glob.glob(pattern) in a file system f
glob(f, pattern) == {n \in f.files : GlobMatch(pattern, n)}

\* files.sort(); files[-1]
LastSorted(S) == CHOOSE m \in S : \A n \in S : n = m \/ StrLess(n, m)

\* re.findall("file '(.+)'", line)[0], or None when nothing matches: the
\* match starts at the leftmost "file '" that a quote follows with at least
\* one character between, and the greedy group runs to the last quote
file_match(line) ==
  LET starts == {i \in 0..(Len(line) - 6) :
                   /\ Slice(line, i, i + 6) = "file '"
                   /\ \E j \in (i + 7)..(Len(line) - 1) : Chr(line, j) = "'"}
  IN  IF starts = {} THEN None
      ELSE LET i == CHOOSE x \in starts : \A y \in starts : x <= y
               j == CHOOSE x \in (i + 7)..(Len(line) - 1) :
                      /\ Chr(line, x) = "'"
                      /\ \A y \in (x + 1)..(Len(line) - 1) : Chr(line, y) # "'"
           IN  Some(Slice(line, i + 6, j))

\* the loop of find_one_input over the lines of the list, from line i down
RECURSIVE ScanLines(_, _)
ScanLines(lines, i) ==
  IF i < 0 THEN None
  ELSE IF file_match(At(lines, i)) # None THEN file_match(At(lines, i))
  ELSE ScanLines(lines, i - 1)

\* A result of find_one_input: raised is TRUE when open() raised OSError,
\* val is the value returned, list_file the file the call opened as a
\* concat list.
OneInput(raised, val, list_file) ==
  [raised |-> raised, val |-> val, list_file |-> list_file]

\* the part of find_one_input after the printf branch
concat_or_media(a, f, i_arg, f_arg) ==
  IF f_arg # None /\ f_arg[1].val = "concat"
  THEN IF i_arg.val \notin DOMAIN f.lists
       THEN OneInput(TRUE, None, Some(i_arg.val))
       ELSE LET m == ScanLines(f.lists[i_arg.val],
                               Len(f.lists[i_arg.val]) - 1)
            IN  IF m # None THEN OneInput(FALSE, m, Some(i_arg.val))
                ELSE OneInput(FALSE, Some(i_arg.val), Some(i_arg.val))
  ELSE OneInput(FALSE, Some(i_arg.val), None)

find_one_input(a, f) ==
  LET i_arg == find_arg_after(a, "-i", FALSE)
  IN  IF i_arg = None THEN OneInput(FALSE, None, None)
      ELSE IF Contains(i_arg[1].val, "%")
      THEN LET found == glob(f, printf_to_glob(i_arg[1].val, 0))
           IN  OneInput(FALSE,
                        IF found # {} THEN Some(LastSorted(found)) ELSE None,
                        None)
      ELSE concat_or_media(a, f, i_arg[1],
                           find_arg_after(a, "-f", TRUE))

\* ------------------------------------------------------------------------
\* Argument vectors and file systems the calls are run on

MaxSegs == 3

RECURSIVE Flatten(_)
Flatten(ss) == IF ss = << >> THEN << >> ELSE Head(ss) \o Flatten(Tail(ss))

\* the vectors made of at most n pieces of S
ArgVectors(S, n) == {Flatten(ss) : ss \in UNION {[1..k -> S] : k \in 0..n}}

CPPieces ==
  { <<"-i">>, <<"-f">>, <<"concat">>, <<"mov">>, <<"x.mp4">>,
    <<"-i", "l.txt">>, <<"-i", "i%02d.jpg">>, <<"-i", "x.mp4">>,
    <<"-f", "concat">>, <<"-f", "mov">> }

Patterns == {"-i", "-f"}

NoLists == [n \in {} |-> << >>]

\* a directory with burst shots and a concat list, and an empty directory
PipeFileSystems ==
  { [files |-> {"i01.jpg", "i02.jpg", ".01.jpg"},
     lists |-> [n \in {"l.txt"} |->
                  <<"file 'a.jpg'", "duration 0.1", "file 'v.d/.clip'",
                    "duration 0.1">>]],
    [files |-> {}, lists |-> NoLists] }

\* and a directory whose list names no file
FileSystems ==
  PipeFileSystems
    \cup { [files |-> {"i07.jpg"},
            lists |-> [n \in {"l.txt"} |-> <<"ffconcat version 1.0">>]] }

NoFS == [files |-> {}, lists |-> NoLists]

NoCall == [op |-> "", regex |-> "", backwards |-> FALSE]

IdleCP == call = NoCall /\ ret = None

IdlePipeline ==
  /\ dry_run = FALSE /\ inspected = None /\ output_path = None
  /\ printed = << >> /\ results = << >> /\ status = None

IdleSeries == images = << >> /\ min_num_images = 0 /\ all_series = None

IdlePattern == path = "" /\ seq_pat = None

IdleFramerate == files_in = None /\ framerate = None

IdleVideo == self_images = << >> /\ input_flags = None /\ video = None

\* ------------------------------------------------------------------------
\* The methods of a CommandProcessor, called on a constructed object

InitCP ==
  /\ pc = "cp"
  /\ args \in ArgVectors(CPPieces, MaxSegs)
  /\ fs = NoFS
  /\ IdleCP /\ IdlePipeline /\ IdleSeries /\ IdlePattern /\ IdleFramerate
  /\ IdleVideo

Returns(op, regex, backwards, value) ==
  /\ pc = "cp"
  /\ pc' = "returned"
  /\ call' = [op |-> op, regex |-> regex, backwards |-> backwards]
  /\ ret' = value
  /\ UNCHANGED << args, dry_run, inspected, output_path, printed,
                  results, status, images, min_num_images, all_series, path,
                  seq_pat, files_in, framerate,
                  self_images, input_flags, video >>

CallFindArgAfter ==
  \E regex \in Patterns, backwards \in BOOLEAN :
    /\ Returns("find_arg_after", regex, backwards,
               find_arg_after(args, regex, backwards))
    /\ UNCHANGED fs

CallFindBitrate ==
  Returns("find_bitrate", "", FALSE, find_bitrate(args)) /\ UNCHANGED fs

CallFindEncoder ==
  Returns("find_encoder", "", FALSE, find_encoder(args)) /\ UNCHANGED fs

CallFindOutputFormat ==
  /\ Returns("find_output_format", "", FALSE, find_output_format(args))
  /\ UNCHANGED fs

CallFindOutput ==
  Returns("find_output", "", FALSE, find_output(args)) /\ UNCHANGED fs

CallFindOneInput ==
  \E f \in FileSystems :
    /\ Returns("find_one_input", "", FALSE, find_one_input(args, f))
    /\ fs' = f

NextCP ==
  \/ CallFindArgAfter
  \/ CallFindBitrate
  \/ CallFindEncoder
  \/ CallFindOutputFormat
  \/ CallFindOutput
  \/ CallFindOneInput

SpecCP == InitCP /\ [][NextCP]_vars

\* ------------------------------------------------------------------------
\* ffmpeg_2pass_and_exif and ExecCmd.run

\* p.rfind(c) of a one-character string c
RFind(p, c) ==
  LET S == {i \in 0..(Len(p) - 1) : Chr(p, i) = c}
  IN  IF S = {} THEN -1 ELSE CHOOSE i \in S : \A j \in S : j <= i

\* the loop of os.path.splitext over the characters before the last dot
RECURSIVE SplitextScan(_, _, _)
SplitextScan(p, filenameIndex, dotIndex) ==
  IF filenameIndex >= dotIndex THEN p
  ELSE IF Chr(p, filenameIndex) # "." THEN Slice(p, 0, dotIndex)
  ELSE SplitextScan(p, filenameIndex + 1, dotIndex)

\* os.path.splitext(p)[0]
\* os.path.splitext(p)[0]
splitext_root(p) ==
  LET sepIndex == RFind(p, "/")
      dotIndex == RFind(p, ".")
  IN  IF dotIndex > sepIndex THEN SplitextScan(p, sepIndex + 1, dotIndex)
      ELSE p

\* s.replace(old, new) from index i on, old not empty
RECURSIVE py_replace(_, _, _, _)
py_replace(s, old, new, i) ==
  IF i >= Len(s) THEN ""
  ELSE IF i + Len(old) <= Len(s) /\ Slice(s, i, i + Len(old)) = old
       THEN new \o py_replace(s, old, new, i + Len(old))
  ELSE Chr(s, i) \o py_replace(s, old, new, i + 1)

\* the locals of ffmpeg_2pass_and_exif after its five find calls
Locals(one_input, a) ==
  [one_input     |-> one_input,
   output_spec   |-> find_output(a),
   output_format |-> IF find_output_format(a) \notin {None, Some("")}
                     THEN find_output_format(a)[1] ELSE "mp4",
   bitrate       |-> find_bitrate(a),
   encoder       |-> find_encoder(a)]

\* the checks of ffmpeg_2pass_and_exif: TRUE when one of them raises
checks_without_tag(a, l) ==
  \/ l.one_input \in {None, Some("")}
  \/ l.output_spec \notin {None, Some("")}
  \/ l.encoder \notin {Some("libx264"), Some("libx265")}

checks_raise(a, l) ==
  \/ l.one_input \in {None, Some("")}
  \/ l.output_spec \notin {None, Some("")}
  \/ l.encoder \notin {Some("libx264"), Some("libx265")}
  \/ /\ l.encoder = Some("libx265")
     /\ LET tag_arg == find_arg_after(a, "-tag:v", FALSE)
        IN  tag_arg = None \/ tag_arg[1].val # "hvc1"

assemble_always_bps(l) ==
  splitext_root(l.one_input[1]) \o "."
    \o py_replace(l.encoder[1], "lib", "", 0)
    \o "." \o (IF l.bitrate # None THEN l.bitrate[1] ELSE "") \o "bps"
    \o "." \o l.output_format

\* the output path ffmpeg_2pass_and_exif assembles
assemble_output_path(l) ==
  splitext_root(l.one_input[1]) \o "."
    \o py_replace(l.encoder[1], "lib", "", 0)
    \o (IF l.bitrate \notin {None, Some("")}
        THEN "." \o l.bitrate[1] \o "bps" ELSE "")
    \o "." \o l.output_format

cmd(a) == <<"ffmpeg", "-nostdin", "-hide_banner">> \o a

pass1_cmd(a, encoder) ==
  IF encoder = "libx264"
  THEN cmd(a) \o <<"-map", "-0?", "-map", "0:v", "-pass", "1", "-f", "null",
                   "/dev/null">>
  ELSE cmd(a) \o <<"-map", "-0?", "-map", "0:v", "-x265-params", "pass=1",
                   "-f", "null", "/dev/null">>

pass2_cmd(a, encoder, out) ==
  IF encoder = "libx264"
  THEN cmd(a) \o <<"-pass", "2", out>>
  ELSE cmd(a) \o <<"-x265-params", "pass=2", out>>

exif_cmd(one_input, out) ==
  <<"exiftool", "-tagsFromFile", one_input, "-overwrite_original", out>>

Running == [kind |-> "running", exc |-> "", code |-> 0]

Raised(exc) == [kind |-> "raised", exc |-> exc, code |-> 0]

Exited(code) == [kind |-> "exit", exc |-> "", code |-> code]

Returned == [kind |-> "returned", exc |-> "", code |-> 0]

\* What subprocess.run can do with a command: exit with a return code (a
\* negative one when a signal killed it) or be interrupted from the keyboard.
ReturnCodes == {0, 1, -9}

Outcomes ==
  [interrupted : {FALSE}, returncode : ReturnCodes]
    \cup {[interrupted |-> TRUE, returncode |-> 0]}

PipePieces ==
  { <<"-i", "/a/b/IMG_001.jpg">>, <<"-f", "concat", "-i", "l.txt">>,
    <<"-i", "i%02d.jpg">>, <<"-f", "">>,
    <<"-c:v", "libx264">>, <<"-c:v", "libx265">>, <<"-c:v", "libx2645">>,
    <<"-tag:v", "hev1">>, <<"-c:v", "libx265", "-tag:v", "hvc1">>,
    <<"-b:v", "">>, <<"-b:v", "2M", "-f", "mov">>,
    <<"x.mp4">> }

Init ==
  /\ pc = "inspect"
  /\ args \in ArgVectors(PipePieces, MaxSegs)
  /\ dry_run \in BOOLEAN
  /\ fs = NoFS
  /\ inspected = None /\ output_path = None
  /\ printed = << >> /\ results = << >> /\ status = Running
  /\ IdleCP /\ IdleSeries /\ IdlePattern /\ IdleFramerate
  /\ IdleVideo

Untouched ==
  UNCHANGED << args, dry_run, call, ret, images, min_num_images, all_series,
               path, seq_pat, files_in, framerate,
                  self_images, input_flags, video >>

\* lines 136-175: the inspection, the checks and the output path
Inspect ==
  /\ pc = "inspect"
  /\ \E f \in PipeFileSystems :
       \E one \in {find_one_input(args, f)} :
         \E l \in {Locals(one.val, args)} :
           /\ fs' = f
           /\ IF one.raised
              THEN /\ pc' = "raised" /\ status' = Raised("OSError")
                   /\ UNCHANGED << inspected, output_path >>
              ELSE IF checks_raise(args, l)
              THEN /\ pc' = "raised"
                   /\ status' = Raised("CommandlineArgumentError")
                   /\ inspected' = Some(l)
                   /\ UNCHANGED output_path
              ELSE /\ pc' = "pass1"
                   /\ inspected' = Some(l)
                   /\ output_path' = Some(assemble_output_path(l))
                   /\ UNCHANGED status
  /\ UNCHANGED << printed, results >>
  /\ Untouched

Run_ignoring_failure(here, c, next) ==
  /\ pc = here
  /\ printed' = Append(printed, c)
  /\ IF dry_run
     THEN UNCHANGED results
     ELSE \E o \in Outcomes : results' = Append(results, o)
  /\ pc' = next
  /\ status' = IF next = "returned" THEN Returned ELSE status
  /\ UNCHANGED << fs, inspected, output_path >>
  /\ Untouched

\* ExecCmd.run(c), called at position here and followed by position next
Run(here, c, next) ==
  /\ pc = here
  /\ printed' = Append(printed, c)
  /\ IF dry_run
     THEN /\ pc' = next
          /\ status' = IF next = "returned" THEN Returned ELSE status
          /\ UNCHANGED results
     ELSE \E o \in Outcomes :
            /\ results' = Append(results, o)
            /\ IF o.interrupted
               THEN pc' = "exited" /\ status' = Exited(130)
               ELSE IF o.returncode # 0
               THEN pc' = "exited" /\ status' = Exited(o.returncode)
               ELSE /\ pc' = next
                    /\ status' = IF next = "returned" THEN Returned
                                 ELSE status
  /\ UNCHANGED << fs, inspected, output_path >>
  /\ Untouched

RunPass1 == Run("pass1", pass1_cmd(args, inspected[1].encoder[1]), "pass2")

RunPass2 ==
  Run("pass2", pass2_cmd(args, inspected[1].encoder[1], output_path[1]),
      "exif")

RunExif ==
  Run("exif", exif_cmd(inspected[1].one_input[1], output_path[1]),
      "returned")

Next == Inspect \/ RunPass1 \/ RunPass2 \/ RunExif

Spec == Init /\ [][Next]_vars

\* ------------------------------------------------------------------------
\* Properties of the CommandProcessor methods (under SpecCP)

Min(S) == CHOOSE x \in S : \A y \in S : x <= y

Max(S) == CHOOSE x \in S : \A y \in S : x >= y

\* the indices 0..len-2 whose element is the token
IndicesOf(a, token) == {i \in 0..(Len(a) - 2) : a[i + 1] = token}

Called(op) == pc = "returned" /\ call.op = op

\* C1: find_arg_after looks at the indices 0..len-2 only and matches whole
\* elements: it returns {val: args[i+1], pos: i+1} for the lowest matching
\* index i when searching forwards and for the highest one when searching
\* backwards, so the two directions agree when one index matches and differ
\* when several do; without a matching index (as in every vector of fewer
\* than 2 elements) it returns None, and no position it returns lies outside
\* the vector.
C1_FindArgAfter ==
  Called("find_arg_after") =>
    LET M == IndicesOf(args, call.regex)
        i == IF call.backwards THEN Max(M) ELSE Min(M)
        other == find_arg_after(args, call.regex, ~call.backwards)
    IN  /\ M = {} => ret = None
        /\ Len(args) < 2 => ret = None
        /\ M # {} => /\ ret = Some([val |-> args[i + 2], pos |-> i + 1])
                     /\ ret[1].pos \in 1..(Len(args) - 1)
        /\ Cardinality(M) = 1 => ret = other
        /\ Cardinality(M) >= 2 => ret # other

C1_Witness ==
  /\ Called("find_arg_after")
  /\ call.backwards
  /\ Cardinality(IndicesOf(args, call.regex)) >= 2
  /\ ret # None
  /\ ret[1].pos = Max(IndicesOf(args, call.regex)) + 1

\* C5: find_output_format returns the value after the last -f that has a
\* following element if and only if an -i with a following element exists
\* and that value's position is greater than the position of the argument
\* of the first -i; in every other case it returns None.
C5_FindOutputFormat ==
  Called("find_output_format") =>
    LET F == IndicesOf(args, "-f")
        I == IndicesOf(args, "-i")
    IN  IF F # {} /\ I # {} /\ Max(F) + 1 > Min(I) + 1
        THEN ret = Some(args[Max(F) + 2])
        ELSE ret = None

C5_Witness ==
  /\ Called("find_output_format")
  /\ Cardinality(IndicesOf(args, "-f")) >= 2
  /\ IndicesOf(args, "-i") # {}
  /\ Min(IndicesOf(args, "-f")) < Min(IndicesOf(args, "-i"))
  /\ ret = Some("mov")

\* the string holds a printf token %Nd
HasPrintfToken(s) == printf_to_glob(s, 0) # s

\* C10: find_one_input treats the -i value as a concat list file (returning
\* the path captured by its last line matching file '...') exactly when the
\* value holds no printf token and a -f with value concat stands before the
\* -i argument, whatever -f follows the input.
C10_ConcatByPosition ==
  Called("find_one_input") =>
    LET I == IndicesOf(args, "-i")
        i_pos == Min(I) + 1
        concat_before ==
          \E k \in IndicesOf(args, "-f") :
            args[k + 2] = "concat" /\ k + 1 < i_pos
        expected == I # {} /\ ~HasPrintfToken(args[i_pos + 1])
                      /\ concat_before
    IN  /\ ret.list_file # None <=> expected
        /\ (expected /\ ~ret.raised
              /\ ScanLines(fs.lists[args[i_pos + 1]],
                           Len(fs.lists[args[i_pos + 1]]) - 1) # None)
             => ret.val = ScanLines(fs.lists[args[i_pos + 1]],
                                    Len(fs.lists[args[i_pos + 1]]) - 1)

\* the last four characters are .mov or .mp4 in any letter case
EndsInMovOrMp4(s) ==
  /\ Len(s) >= 4
  /\ Lower(SubSeq(s, Len(s) - 3, Len(s))) \in {".mov", ".mp4"}

\* the indices 0..len-1 whose token ends in .mov or .mp4
OutputIndices(a) == {i \in 0..(Len(a) - 1) : EndsInMovOrMp4(a[i + 1])}

\* C11: find_output looks at the highest-index token that ends in .mov or
\* .mp4, case-insensitively: it returns None when no token matches or when
\* the token just before that one is -i, and returns the token in every
\* other case, the one where it is at index 0 and has no token before it
\* included.
C11_FindOutput ==
  Called("find_output") =>
    LET M == OutputIndices(args)
    IN  IF M = {} THEN ret = None
        ELSE LET m == Max(M)
             IN  IF m > 0 /\ args[m] = "-i"
                 THEN ret = None
                 ELSE ret = Some(args[m + 1])

\* ------------------------------------------------------------------------
\* Properties of ffmpeg_2pass_and_exif (under Spec)

\* the value after the first occurrence of a flag that has one
ValueAfterFirst(a, flag) ==
  IF IndicesOf(a, flag) = {} THEN None
  ELSE Some(a[Min(IndicesOf(a, flag)) + 2])

\* the reasons for which the argument vector is to be rejected
NoInputResolves == inspected[1].one_input \in {None, Some("")}

OutputDetected == find_output(args) # None

EncoderNotListed ==
  ValueAfterFirst(args, "-c:v") \notin {Some("libx264"), Some("libx265")}

X265WithoutTag ==
  /\ ValueAfterFirst(args, "-c:v") = Some("libx265")
  /\ ~\E k \in IndicesOf(args, "-tag:v") : args[k + 2] = "hvc1"

\* C2: whenever the inspection ends and the vector is to be rejected (no
\* input resolves, an output file is detected, the encoder is neither
\* libx264 nor libx265, or it is libx265 without -tag:v hvc1), the call
\* raises CommandlineArgumentError, and a call that raised has handed no
\* command to ExecCmd.run: nothing is printed, nothing is started.
C2_RejectBeforeRun ==
  /\ (inspected # None
        /\ (NoInputResolves \/ OutputDetected \/ EncoderNotListed
              \/ X265WithoutTag))
       => status = Raised("CommandlineArgumentError")
  /\ status.kind = "raised" => printed = << >> /\ results = << >>

C2_Witness ==
  /\ inspected # None
  /\ X265WithoutTag /\ ~NoInputResolves /\ ~OutputDetected
  /\ status = Raised("CommandlineArgumentError")
  /\ printed = << >>

PassSelection(encoder, n) ==
  IF encoder = "libx264" THEN <<"-pass", n>>
  ELSE <<"-x265-params", "pass=" \o n>>

\* the three commands of the plan of an accepted vector
Plan ==
  LET base == <<"ffmpeg", "-nostdin", "-hide_banner">> \o args
      enc == inspected[1].encoder[1]
  IN  << base \o <<"-map", "-0?", "-map", "0:v">> \o PassSelection(enc, "1")
              \o <<"-f", "null", "/dev/null">>,
         base \o PassSelection(enc, "2") \o <<output_path[1]>>,
         <<"exiftool", "-tagsFromFile", inspected[1].one_input[1],
           "-overwrite_original", output_path[1]>> >>

Succeeded(o) == ~o.interrupted /\ o.returncode = 0

\* C3: for an accepted vector ExecCmd.run receives pass 1, pass 2 and the
\* metadata copy, in this order and nothing else; a command is started only
\* when every command before it has exited with status 0, so a command that
\* exits non-zero or is interrupted is the last one started, and the call
\* then exits with that return code (130 for an interrupt).
C3_ThreeCommandsInOrder ==
  /\ output_path = None => printed = << >> /\ results = << >>
  /\ output_path # None =>
       /\ Len(printed) <= 3
       /\ printed = SubSeq(Plan, 1, Len(printed))
       /\ pc = "returned" => printed = Plan
       /\ results = << >> \/ Len(results) = Len(printed)
       /\ \A k \in 1..(Len(results) - 1) : Succeeded(results[k])
       /\ (results # << >> /\ ~Succeeded(results[Len(results)])) =>
            /\ pc = "exited"
            /\ status = Exited(IF results[Len(results)].interrupted THEN 130
                               ELSE results[Len(results)].returncode)
       /\ pc = "returned" => \A k \in 1..Len(results) : Succeeded(results[k])

C3_Witness ==
  /\ pc = "exited"
  /\ Len(printed) = 2 /\ Len(results) = 2
  /\ results[2].returncode = -9
  /\ status = Exited(-9)

\* os.path.splitext(p)[0], stated on the positions of the dots: the
\* extension starts at the last dot, when that dot stands after the last
\* slash and some character between them is not a dot
Stem(p) ==
  LET dots == {i \in 0..(Len(p) - 1) : Chr(p, i) = "."}
      seps == {i \in 0..(Len(p) - 1) : Chr(p, i) = "/"} \cup {-1}
  IN  IF dots # {} /\ Max(dots) > Max(seps)
         /\ \E k \in (Max(seps) + 1)..(Max(dots) - 1) : Chr(p, k) # "."
      THEN Slice(p, 0, Max(dots))
      ELSE p

WithoutLibPrefix(e) == IF Slice(e, 0, 3) = "lib" THEN Slice(e, 3, Len(e)) ELSE e

\* the output format the vector names: the value after the last -f, when it
\* follows the argument of the first -i
FormatFound ==
  LET F == IndicesOf(args, "-f")
      I == IndicesOf(args, "-i")
  IN  IF F # {} /\ I # {} /\ Max(F) > Min(I) THEN Some(args[Max(F) + 2])
      ELSE None

\* C4 as claimed: the output path of an accepted vector is the input without
\* its extension, then . and the encoder without lib, then .<bitrate>bps if
\* and only if a -b:v value was found, then . and the output format, mp4
\* when no output format was found.
C4_OutputPath_AnyValue ==
  output_path # None =>
    output_path[1] =
      Stem(inspected[1].one_input[1]) \o "."
        \o WithoutLibPrefix(ValueAfterFirst(args, "-c:v")[1])
        \o (IF ValueAfterFirst(args, "-b:v") # None
            THEN "." \o ValueAfterFirst(args, "-b:v")[1] \o "bps" ELSE "")
        \o "." \o (IF FormatFound # None THEN FormatFound[1] ELSE "mp4")

\* C4 as amended: .<bitrate>bps is appended if and only if a non-empty -b:v
\* value was found, and the output format is mp4 when no output format or an
\* empty one was found.
C4_OutputPath ==
  output_path # None =>
    output_path[1] =
      Stem(inspected[1].one_input[1]) \o "."
        \o WithoutLibPrefix(ValueAfterFirst(args, "-c:v")[1])
        \o (IF ValueAfterFirst(args, "-b:v") \notin {None, Some("")}
            THEN "." \o ValueAfterFirst(args, "-b:v")[1] \o "bps" ELSE "")
        \o "." \o (IF FormatFound \notin {None, Some("")} THEN FormatFound[1]
                   ELSE "mp4")

C4_Witness ==
  /\ output_path = Some("/a/b/IMG_001.x265.2Mbps.mov")
  /\ inspected[1].one_input = Some("/a/b/IMG_001.jpg")
  /\ inspected[1].encoder = Some("libx265")
  /\ inspected[1].bitrate = Some("2M")
  /\ inspected[1].output_format = "mov"

\* ------------------------------------------------------------------------
\* BurstSeries.find_all_series

\* capture times are counted in ticks
TicksPerSecond == 2

\* itertools.groupby(images, key=lambda x: x.path_pattern): the runs of
\* consecutive images of one pattern, given the groups found so far
RECURSIVE groupby(_, _)
groupby(imgs, groups) ==
  IF imgs = << >> THEN groups
  ELSE LET img == Head(imgs)
           n == Len(groups)
       IN  IF n > 0 /\ groups[n][1].path_pattern = img.path_pattern
           THEN groupby(Tail(imgs), [groups EXCEPT ![n] = Append(@, img)])
           ELSE groupby(Tail(imgs), Append(groups, <<img>>))

\* the list sorted by sequence_num with x put after the elements not above it
RECURSIVE InsertBySequenceNum(_, _)
InsertBySequenceNum(sorted, x) ==
  IF sorted = << >> THEN <<x>>
  ELSE IF x.sequence_num < Head(sorted).sequence_num THEN <<x>> \o sorted
  ELSE <<Head(sorted)>> \o InsertBySequenceNum(Tail(sorted), x)

\* sorted(image_iter, key=lambda x: x.sequence_num), which is stable
RECURSIVE sorted_by_sequence_num(_)
sorted_by_sequence_num(l) ==
  IF l = << >> THEN << >>
  ELSE InsertBySequenceNum(sorted_by_sequence_num(SubSeq(l, 1, Len(l) - 1)),
                           l[Len(l)])

\* the condition of find_all_series that opens a new series at index i
opens_series(imgs, i) ==
  \/ i = 0
  \/ imgs[i + 1].sequence_num # imgs[i].sequence_num + 1
  \/ imgs[i + 1].time - imgs[i].time > 1 * TicksPerSecond

\* the inner loop of find_all_series over one sorted group, from index i on
RECURSIVE WalkGroup(_, _, _)
WalkGroup(imgs, i, series) ==
  IF i >= Len(imgs) THEN series
  ELSE IF opens_series(imgs, i)
       THEN WalkGroup(imgs, i + 1, Append(series, <<imgs[i + 1]>>))
  ELSE WalkGroup(imgs, i + 1,
                 [series EXCEPT ![Len(series)] = Append(@, imgs[i + 1])])

\* the outer loop of find_all_series over the groups
RECURSIVE WalkGroups(_, _)
WalkGroups(groups, series) ==
  IF groups = << >> THEN series
  ELSE WalkGroups(Tail(groups),
                  WalkGroup(sorted_by_sequence_num(Head(groups)), 0,
                            series))

find_all_series(imgs, min) ==
  SelectSeq(WalkGroups(groupby(imgs, << >>), << >>),
            LAMBDA s : Len(s) >= min)

MaxImages == 3

ImagePatterns == {"DSC_*.jpg", "IMA_*.jpg"}

SequenceNums == {-1, 0, 1}

Times == {0, 2, 3}

MinNums == {1, 2}

ImageFiles ==
  [path_pattern : ImagePatterns, sequence_num : SequenceNums, time : Times]

InitSeries ==
  /\ pc = "find_all_series"
  /\ images \in UNION {[1..n -> ImageFiles] : n \in 0..MaxImages}
  /\ min_num_images \in MinNums
  /\ all_series = None
  /\ args = << >> /\ fs = NoFS
  /\ IdleCP /\ IdlePipeline /\ IdlePattern /\ IdleFramerate
  /\ IdleVideo

FindAllSeries ==
  /\ pc = "find_all_series"
  /\ pc' = "returned"
  /\ all_series' = Some(find_all_series(images, min_num_images))
  /\ UNCHANGED << args, fs, call, ret, dry_run, inspected, output_path,
                  printed, results, status, images, min_num_images, path,
                  seq_pat, files_in, framerate,
                  self_images, input_flags, video >>

SpecSeries == InitSeries /\ [][FindAllSeries]_vars

\* sort order of the reference algorithm: by (path_pattern, sequence_num)
ByPatternAndNum(x, y) ==
  \/ StrLess(x.path_pattern, y.path_pattern)
  \/ x.path_pattern = y.path_pattern /\ x.sequence_num < y.sequence_num

RECURSIVE ReferenceInsert(_, _)
ReferenceInsert(sorted, x) ==
  IF sorted = << >> THEN <<x>>
  ELSE IF ByPatternAndNum(x, Head(sorted)) THEN <<x>> \o sorted
  ELSE <<Head(sorted)>> \o ReferenceInsert(Tail(sorted), x)

\* the stable sort of the reference algorithm
RECURSIVE ReferenceSort(_)
ReferenceSort(l) ==
  IF l = << >> THEN << >>
  ELSE ReferenceInsert(ReferenceSort(SubSeq(l, 1, Len(l) - 1)), l[Len(l)])

\* the walk of the reference algorithm over the sorted images
RECURSIVE ReferenceWalk(_, _, _)
ReferenceWalk(imgs, i, series) ==
  IF i > Len(imgs) THEN series
  ELSE IF \/ i = 1
          \/ imgs[i].path_pattern # imgs[i - 1].path_pattern
          \/ imgs[i].sequence_num # imgs[i - 1].sequence_num + 1
          \/ imgs[i].time - imgs[i - 1].time > 1 * TicksPerSecond
       THEN ReferenceWalk(imgs, i + 1, Append(series, <<imgs[i]>>))
  ELSE ReferenceWalk(imgs, i + 1,
                     [series EXCEPT ![Len(series)] = Append(@, imgs[i])])

Reference(imgs, min) ==
  SelectSeq(ReferenceWalk(ReferenceSort(imgs), 1, << >>),
            LAMBDA s : Len(s) >= min)

\* C6: for images given in any order, find_all_series returns what the
\* reference algorithm returns: stable sort by (path_pattern, sequence_num),
\* one walk that opens a series at the first image, at a change of pattern,
\* at a sequence number that is not the previous one plus 1 or at a capture
\* time more than 1.0 second later, then the series shorter than
\* min_num_images dropped.
C6_MatchesReference ==
  pc = "returned" => all_series = Some(Reference(images, min_num_images))

\* C7: two images adjacent in a returned series were taken at most 1.0
\* second apart.
C7_AdjacentWithinOneSecond ==
  pc = "returned" =>
    \A s \in 1..Len(all_series[1]) :
      \A k \in 1..(Len(all_series[1][s]) - 1) :
        LET d == all_series[1][s][k + 1].time - all_series[1][s][k].time
        IN  d <= 1 * TicksPerSecond /\ -d <= 1 * TicksPerSecond

\* ------------------------------------------------------------------------
\* ImageFile.get_sequence_and_pattern

\* os.path.basename(p)
basename(p) == Slice(p, RFind(p, "/") + 1, Len(p))

\* s.rstrip('/')
RECURSIVE RStripSep(_)
RStripSep(s) ==
  IF Len(s) > 0 /\ Chr(s, Len(s) - 1) = "/"
  THEN RStripSep(Slice(s, 0, Len(s) - 1)) ELSE s

\* os.path.dirname(p)
dirname(p) ==
  LET head == Slice(p, 0, RFind(p, "/") + 1)
  IN  IF head # "" /\ head # Repeat("/", Len(head)) THEN RStripSep(head)
      ELSE head

\* os.path.join(a, b) of a b that does not start with a slash
join(a, b) ==
  IF a = "" \/ Chr(a, Len(a) - 1) = "/" THEN a \o b ELSE a \o "/" \o b

\* re.search(r'(\d{3,})', s) from index i on: the leftmost run of 3 or more
\* digits, taken whole, as << start, length >>, or None
RECURSIVE search_digits(_, _)
search_digits(s, i) ==
  IF i >= Len(s) THEN None
  ELSE IF DigitRun(s, i) >= 3 THEN Some(<<i, DigitRun(s, i)>>)
  ELSE search_digits(s, i + 1 + DigitRun(s, i))

get_sequence_and_pattern(p) ==
  LET matched == search_digits(basename(p), 0)
      matched_str == Slice(basename(p), matched[1][1],
                           matched[1][1] + matched[1][2])
  IN  IF matched # None
      THEN << py_int(matched_str),
              join(dirname(p), py_replace(basename(p), matched_str, "*", 0)) >>
      ELSE << -1, p >>

MaxChunks == 3

Dirs == {"", "/", "d/", "folder_005/"}

Chunks == {"IMG_", "002", "0123", "01", "-", ".jpg"}

RECURSIVE Concat(_)
Concat(ss) == IF ss = << >> THEN "" ELSE Head(ss) \o Concat(Tail(ss))

\* TLC counts in 32 bits: the paths with longer runs of digits are left out
MaxDigits == 9

Paths ==
  {p \in {d \o Concat(cs) :
            d \in Dirs, cs \in UNION {[1..n -> Chunks] : n \in 0..MaxChunks}} :
     \A i \in 0..(Len(p) - 1) : DigitRun(p, i) <= MaxDigits}

InitPattern ==
  /\ pc = "get_sequence_and_pattern"
  /\ path \in Paths
  /\ seq_pat = None
  /\ args = << >> /\ fs = NoFS
  /\ IdleCP /\ IdlePipeline /\ IdleSeries /\ IdleFramerate
  /\ IdleVideo

GetSequenceAndPattern ==
  /\ pc = "get_sequence_and_pattern"
  /\ pc' = "returned"
  /\ seq_pat' = Some(get_sequence_and_pattern(path))
  /\ UNCHANGED << args, fs, call, ret, dry_run, inspected, output_path,
                  printed, results, status, images, min_num_images,
                  all_series, path, files_in, framerate,
                  self_images, input_flags, video >>

SpecPattern == InitPattern /\ [][GetSequenceAndPattern]_vars

\* the runs of 3 or more digits of the file name of p, as the indices in p
\* of their first digits; a run is taken whole
DigitRunStarts(p) ==
  {i \in (RFind(p, "/") + 1)..(Len(p) - 1) :
     /\ DigitRun(p, i) >= 3
     /\ (i = 0 \/ Chr(p, i - 1) \notin Digits)}

\* C8: get_sequence_and_pattern takes the last run of 3 or more digits of
\* the file name as the sequence number and returns as pattern the path
\* with that one run replaced by a single *; without such a run it returns
\* (-1, path).
C8_LastRunOneStar ==
  pc = "returned" =>
    IF DigitRunStarts(path) = {} THEN seq_pat = Some(<< -1, path >>)
    ELSE LET i == Max(DigitRunStarts(path))
             n == DigitRun(path, i)
         IN  seq_pat = Some(<< py_int(Slice(path, i, i + n)),
                               Slice(path, 0, i) \o "*"
                                 \o Slice(path, i + n, Len(path)) >>)

\* a path that ImageFile turns into the image: the pattern itself for an
\* image without a sequence number, else the pattern with the number, written
\* in three digits, in the place of the *
PathOf(img) ==
  IF img.sequence_num = -1 THEN img.path_pattern
  ELSE py_replace(img.path_pattern, "*",
                  "00" \o SubSeq("0123456789", img.sequence_num + 1,
                                 img.sequence_num + 1), 0)

\* every image is what ImageFile.__init__ makes of some path
FromPaths ==
  \A i \in 1..Len(images) :
    get_sequence_and_pattern(PathOf(images[i]))
      = << images[i].sequence_num, images[i].path_pattern >>

\* the returned series that hold an image without a sequence number
SeriesWithMinusOne ==
  {s \in 1..Len(all_series[1]) :
     \E k \in 1..Len(all_series[1][s]) :
       all_series[1][s][k].sequence_num = -1}

\* C12: in find_all_series an image whose sequence number is -1 never
\* continues a run: it is not appended to the series of the image before it
\* and no image is appended to its series, so every returned series that
\* holds such an image holds nothing else, there is one such series for each
\* such image when min_num_images is 1, and none when min_num_images is
\* greater than 1.
C12_MinusOneIsSingleton ==
  (pc = "returned" /\ all_series # None /\ FromPaths) =>
    /\ \A s \in SeriesWithMinusOne : Len(all_series[1][s]) = 1
    /\ min_num_images > 1 => SeriesWithMinusOne = {}
    /\ min_num_images = 1 =>
         Cardinality(SeriesWithMinusOne)
           = Cardinality({i \in 1..Len(images) : images[i].sequence_num = -1})

\* ------------------------------------------------------------------------
\* guess_framerate

\* round(num / den) of Python, den > 0: halves go to the even neighbour
py_round(num, den) ==
  LET q == num \div den
      r == num % den
  IN  IF 2 * r < den THEN q
      ELSE IF 2 * r > den THEN q + 1
      ELSE IF q % 2 = 0 THEN q ELSE q + 1

\* the bucket table of guess_framerate for a rounded rate fr
mapping(fr) ==
  << <<-1, 1>>, <<1, fr>>, <<7, 8>>, <<9, 10>>, <<11, 12>>, <<14, 15>>,
     <<18, 20>>, <<23, 25>>, <<27, 30>>, <<45, 30>> >>

\* the loop of guess_framerate over the table, from index i on
RECURSIVE ScanMapping(_, _)
ScanMapping(fr, i) ==
  IF i >= Len(mapping(fr)) THEN 60
  ELSE IF fr <= At(mapping(fr), i)[1] THEN At(mapping(fr), i - 1)[2]
  ELSE ScanMapping(fr, i + 1)

\* fr after fr = round(fr): the files are len apart by time2 - time1 seconds
rounded_rate(f) == py_round(f.len - 1, f.time2 - f.time1)

\* guess_framerate of a list of f.len files; f.readable is FALSE when
\* get_time raises, f.time1 and f.time2 are the times of the first and the
\* last file in seconds
guess_framerate(f) ==
  IF f.len < 2 THEN 10
  ELSE IF ~f.readable THEN 10
  ELSE IF f.time2 <= f.time1 THEN 10
  ELSE ScanMapping(rounded_rate(f), 1)

MaxFiles == 50

MaxTime == 3

InitFramerate ==
  /\ pc = "guess_framerate"
  /\ files_in \in [len : 0..MaxFiles, readable : BOOLEAN,
                   time1 : 0..1, time2 : 0..MaxTime]
  /\ framerate = None
  /\ args = << >> /\ fs = NoFS
  /\ IdleCP /\ IdlePipeline /\ IdleSeries /\ IdlePattern
  /\ IdleVideo

GuessFramerate ==
  /\ pc = "guess_framerate"
  /\ pc' = "returned"
  /\ framerate' = Some(guess_framerate(files_in))
  /\ UNCHANGED << args, fs, call, ret, dry_run, inspected, output_path,
                  printed, results, status, images, min_num_images,
                  all_series, path, seq_pat, files_in,
                  self_images, input_flags, video >>

SpecFramerate == InitFramerate /\ [][GuessFramerate]_vars

\* the rate of the row of the table with the largest breakpoint not above fr
RowRate(fr) ==
  LET rows == {k \in 1..Len(mapping(fr)) : mapping(fr)[k][1] <= fr}
  IN  mapping(fr)[Max(rows)][2]

\* the call went through the bucket table
Bucketed ==
  /\ pc = "returned"
  /\ files_in.len >= 2 /\ files_in.readable
  /\ files_in.time2 > files_in.time1

\* C9: a row [b, r] of the bucket table yields r for every rounded rate fr
\* from b up to, and not including, the breakpoint of the next row: for fr
\* in -1..44 the result is the rate of the row with the largest breakpoint
\* not above fr.
C9_RowOfLargestBreakpoint ==
  (Bucketed /\ rounded_rate(files_in) \in -1..44) =>
    framerate = Some(RowRate(rounded_rate(files_in)))

\* ------------------------------------------------------------------------
\* get_ffmpeg_input_flags and BurstSeries.make_video

\* ColorSpace
ColorSpaces == {"UNKNOWN", "SRGB", "P3"}

get_colorspace_flags_for_input(space) ==
  IF space \notin {"SRGB", "P3"} THEN << >>
  ELSE <<"-colorspace", "bt709", "-color_primaries">>
         \o <<IF space = "SRGB" THEN "bt709" ELSE "smpte432">>
         \o <<"-color_trc", "iec61966-2-1">>

get_colorspace_flags_for_output(space) ==
  IF space \in {"SRGB", "P3"} THEN <<"-colorspace", "bt709">> ELSE << >>

\* re.search(r'\.(mp4|m4v|mov|avi|webm)$', fname, re.IGNORECASE); $ matches
\* at the end and before a newline that ends the string
is_video(fname) ==
  LET t == IF Len(fname) > 0 /\ Chr(fname, Len(fname) - 1) = "\n"
           THEN Slice(fname, 0, Len(fname) - 1) ELSE fname
      EndsIn(u) ==
        \E ext \in {".mp4", ".m4v", ".mov", ".avi", ".webm"} :
          /\ Len(u) >= Len(ext)
          /\ Lower(Slice(u, Len(u) - Len(ext), Len(u))) = ext
  IN  EndsIn(fname) \/ EndsIn(t)

\* str(n) of an n >= 0
RECURSIVE py_str(_)
py_str(n) ==
  IF n < 10 THEN SubSeq("0123456789", n + 1, n + 1)
  ELSE py_str(n \div 10) \o py_str(n % 10)

\* the index of the last digit of s at or before index i, or -1
RECURSIVE LastDigitIndex(_, _)
LastDigitIndex(s, i) ==
  IF i < 0 THEN -1
  ELSE IF Chr(s, i) \in Digits THEN i ELSE LastDigitIndex(s, i - 1)

\* the index where the run of digits that ends at index k starts
RECURSIVE RunStart(_, _)
RunStart(s, k) ==
  IF k > 0 /\ Chr(s, k - 1) \in Digits THEN RunStart(s, k - 1) ELSE k

\* re.findall(r'(\d\d+)(\D+)$', file): the last run of digits, when it has 2
\* or more digits and characters after it, with what follows it; the list
\* has at most this one match
findall_start_rest(file) ==
  LET k == LastDigitIndex(file, Len(file) - 1)
      i == RunStart(file, k)
  IN  IF k < 0 \/ k = Len(file) - 1 \/ k - i + 1 < 2 THEN None
      ELSE Some([start |-> Slice(file, i, k + 1),
                 rest  |-> Slice(file, k + 1, Len(file))])

\* files are the records [path, time] of the files; readable is FALSE when
\* exiftool_utils.get_time raises in guess_framerate
get_flags_for_multiple_image_inputs_using_framerate(files, readable) ==
  LET file == files[1].path
      matches == findall_start_rest(file)
      start == matches[1].start
      rest == matches[1].rest
      num_len == Len(start)
      pattern == py_replace(file, start \o rest,
                            "%0" \o py_str(num_len) \o "d" \o rest, 0)
      framerate_ == guess_framerate([len      |-> Len(files),
                                     readable |-> readable,
                                     time1    |-> files[1].time,
                                     time2    |-> files[Len(files)].time])
  IN  IF matches = None THEN << >>
      ELSE <<"-f", "image2", "-r", py_str(framerate_), "-start_number",
             start, "-i", pattern>>

\* space is what ColorSpace.guess(files[0]) returns
get_ffmpeg_input_flags(files, space, readable) ==
  IF files = << >> THEN [raised |-> TRUE, flags |-> << >>]
  ELSE IF is_video(files[1].path)
  THEN [raised |-> FALSE, flags |-> <<"-i", files[1].path>>]
  ELSE [raised |-> FALSE,
        flags  |->
          get_colorspace_flags_for_input(space)
            \o (IF Len(files) = 1 THEN <<"-i", files[1].path>>
                ELSE get_flags_for_multiple_image_inputs_using_framerate(
                       files, readable))
            \o get_colorspace_flags_for_output(space)]

MaxBurst == 2

\* names of files of a series: two shots with a two-digit number, a copy
\* named by the camera software, and a video
BurstPaths == {"i01.jpg", "i02.jpg", "IMG_002-1.jpg", "c.MOV"}

BurstTimes == {0, 1}

\* the ffargs handed to make_video
FfmpegArgs ==
  { <<"-c:v", "libx264">>,
    <<"-c:v", "libx265", "-tag:v", "hvc1", "-b:v", "2M">> }

InitVideo ==
  /\ pc = "make_video"
  /\ self_images \in UNION {[1..n -> [path : BurstPaths, time : BurstTimes]] :
                              n \in 1..MaxBurst}
  /\ dry_run \in BOOLEAN
  /\ input_flags = None /\ video = None
  /\ args = << >> /\ fs = NoFS
  /\ inspected = None /\ output_path = None
  /\ printed = << >> /\ results = << >> /\ status = Running
  /\ IdleCP /\ IdleSeries /\ IdlePattern /\ IdleFramerate

\* lines 219-224: the flags for the images of the series, then the call of
\* ffmpeg_2pass_and_exif with the flags followed by ffmpeg_args; the series
\* has images (the assert of path_pattern)
MakeVideo ==
  /\ pc = "make_video"
  /\ self_images # << >>
  /\ \E space \in ColorSpaces, readable \in BOOLEAN, ffmpeg_args \in FfmpegArgs :
       \E r \in {get_ffmpeg_input_flags(self_images, space, readable)} :
         /\ input_flags' = Some(r.flags)
         /\ args' = r.flags \o ffmpeg_args
  /\ pc' = "inspect"
  /\ UNCHANGED << fs, call, ret, dry_run, inspected, output_path, printed,
                  results, status, images, min_num_images, all_series, path,
                  seq_pat, files_in, framerate, self_images, video >>

\* line 225: self.video = result.output_path
AssignVideo ==
  /\ pc = "returned"
  /\ pc' = "made"
  /\ video' = output_path
  /\ UNCHANGED << args, fs, call, ret, dry_run, inspected, output_path,
                  printed, results, status, images, min_num_images,
                  all_series, path, seq_pat, files_in, framerate,
                  self_images, input_flags >>

NextVideo ==
  \/ MakeVideo
  \/ Inspect
  \/ RunPass1
  \/ RunPass2
  \/ RunExif
  \/ AssignVideo

SpecVideo == InitVideo /\ [][NextVideo]_vars

\* the indices, from 0, of the flags equal to -i
InputFlagIndices ==
  {i \in 0..(Len(input_flags[1]) - 1) : input_flags[1][i + 1] = "-i"}

\* C13: for every non-empty file list (one file, a video first, several
\* images of any names) the flags of get_ffmpeg_input_flags hold -i exactly
\* once, followed at once by the path of the first file or by a printf
\* pattern, so that the vector make_video hands to ffmpeg_2pass_and_exif has
\* an -i with that value after it.
C13_OneInputFlag ==
  input_flags # None =>
    /\ Cardinality(InputFlagIndices) = 1
    /\ \A i \in InputFlagIndices :
         /\ i + 1 < Len(input_flags[1])
         /\ \/ input_flags[1][i + 2] = self_images[1].path
            \/ HasPrintfToken(input_flags[1][i + 2])
         /\ find_arg_after(args, "-i", FALSE)
              = Some([val |-> input_flags[1][i + 2], pos |-> i + 1])

====
